---- MODULE Spec2Model ----
(***************************************************************************)
(* A model of the house-price prediction core of mlops-lab:                *)
(*   src/src/api/inference.py  (artifact load, predict_price,              *)
(*                              batch_predict)                             *)
(*   src/src/api/schemas.py    (HousePredictionRequest, PredictionResponse)*)
(*                                                                         *)
(* Numbers are scaled to integers:                                         *)
(*   bathrooms         in halves        (3 is 1.5 bathrooms)               *)
(*   price_per_sqft    in hundredths    (32000 is 320.00)                  *)
(*   raw model output  in thousandths of the currency unit                 *)
(*   predicted_price and confidence_interval in hundredths (cents)         *)
(* bed_bath_ratio is kept as a reduced fraction, or as inf / nan where     *)
(* the float division of the code yields them.                             *)
(* Python's round(x, 2) is modelled as round-half-to-even on the exact     *)
(* decimal value.                                                          *)
(***************************************************************************)
EXTENDS Integers, Sequences, FiniteSets, TLC

VARIABLES
    phase,         \* "start" (module not imported), "ready", "fatal"
    model,         \* module global `model`
    preprocessor,  \* module global `preprocessor`
    loads,         \* number of times the module-level load has executed
    now,           \* the wall clock read by datetime.now()
    last,          \* the most recent call of predict_price / batch_predict
    earlier        \* one retained earlier predict_price call (history)

vars == <<phase, model, preprocessor, loads, now, last, earlier>>

------------------------------------------------------------------------------
(* Bounds of the model *)

MaxNow == 2

MaxBatch == 2

------------------------------------------------------------------------------
(* Helpers *)

RECURSIVE Gcd(_, _)
Gcd(a, b) == IF b = 0 THEN a ELSE Gcd(b, a % b)

Abs(x) == IF x < 0 THEN -x ELSE x

\* round(n / d) to the nearest integer, ties to the even neighbour (d > 0)
RoundHalfEven(n, d) ==
    LET q == n \div d
        r == n % d
    IN  IF 2 * r < d THEN q
        ELSE IF 2 * r > d THEN q + 1
        ELSE IF q % 2 = 0 THEN q ELSE q + 1

\* round(float(x), 2) of a raw model output given in thousandths -> cents
round2(rawMills) == RoundHalfEven(rawMills, 10)

\* Mutant: the age is taken from the full clock reading, not the year
clock_reading(t) == 2025 + t

\* The calendar year at clock value t: the clock advances in half-years
\* from 2025
YearOf(t) == 2025 + (t \div 2)

\* current_year = datetime.now().year
current_year(t) == YearOf(t)

------------------------------------------------------------------------------
(* HousePredictionRequest *)

Locations == {"Rural", "Suburb", "Urban", "Downtown", "Waterfront", "Mountain"}

Conditions == {"Poor", "Fair", "Good", "Excellent"}

HousePredictionRequest(sq, bed, bath, loc, yb, cond, pps) ==
    [sqft |-> sq, bedrooms |-> bed, bathrooms |-> bath, location |-> loc,
     year_built |-> yb, condition |-> cond, price_per_sqft |-> pps]

\* The documented example request (bathrooms 1.5, price_per_sqft 320)
ExampleRequest ==
    HousePredictionRequest(1527, 2, 3, "Suburb", 1956, "Good", 32000)

\* The requests of the service specification.  predict_price does not
\* validate its argument (the type annotation is not enforced and pydantic
\* models accept unvalidated construction and attribute assignment), so the
\* degenerate requests are inputs it can receive.
Requests ==
    { ExampleRequest,
      HousePredictionRequest(2400, 4, 4, "Waterfront", 2023, "Excellent", 50000),
      HousePredictionRequest(1527, 2, 0, "Suburb", 1956, "Good", 32000),
      HousePredictionRequest(1527, 2, 3, "Suburb", 2030, "Good", 32000),
      HousePredictionRequest(1800, 3, 4, "City", 1990, "Average", 40000) }

\* The requests of the feature-derivation specification: every location and
\* condition of the schema plus the out-of-table ones the traffic generator
\* sends ("City", "Average").
AllRequests ==
    { HousePredictionRequest(1527, bed, bath, loc, yb, cond, pps) :
        bed \in {0, 2}, bath \in {0, 3},
        loc \in Locations \cup {"City"},
        yb \in {1945, 2023, 2030},
        cond \in Conditions \cup {"Average"},
        pps \in {50000} }

------------------------------------------------------------------------------
(* Feature derivation: predict_price, steps 1-3 *)

\* input_data['bedrooms'] / input_data['bathrooms'] : pandas float division,
\* which yields inf or nan on a zero divisor and raises nothing
bed_bath_ratio(bedrooms, bathrooms) ==
    IF bathrooms = 0
    THEN [kind |-> IF bedrooms = 0 THEN "nan" ELSE "inf", num |-> 0, den |-> 0]
    ELSE LET n == 2 * bedrooms
             g == Gcd(Abs(n), Abs(bathrooms))
         IN  [kind |-> "finite", num |-> n \div g, den |-> bathrooms \div g]

\* Mutant: a lookup whose fallback is not the documented 300
base_price_no_fallback(location) ==
    CASE location = "Rural"      -> 180
      [] location = "Suburb"     -> 320
      [] location = "Urban"      -> 280
      [] location = "Downtown"   -> 350
      [] location = "Waterfront" -> 450
      [] location = "Mountain"   -> 250
      [] OTHER                   -> 0

\* location_price_estimates.get(request.location, 300)
base_price_per_sqft(location) ==
    CASE location = "Rural"      -> 180
      [] location = "Suburb"     -> 320
      [] location = "Urban"      -> 280
      [] location = "Downtown"   -> 350
      [] location = "Waterfront" -> 450
      [] location = "Mountain"   -> 250
      [] OTHER                   -> 300

\* condition_multipliers.get(request.condition, 1.0), in hundredths
condition_multiplier(condition) ==
    CASE condition = "Poor"      -> 70
      [] condition = "Fair"      -> 85
      [] condition = "Good"      -> 100
      [] condition = "Excellent" -> 130
      [] OTHER                   -> 100

\* estimated_price_per_sqft = base_price_per_sqft * condition_multiplier
estimated_price_per_sqft(request) ==
    base_price_per_sqft(request.location) * condition_multiplier(request.condition)

\* input_data as handed to preprocessor.transform
input_data(request, t) ==
    [sqft           |-> request.sqft,
     bedrooms       |-> request.bedrooms,
     bathrooms      |-> request.bathrooms,
     location       |-> request.location,
     year_built     |-> request.year_built,
     condition      |-> request.condition,
     house_age      |-> current_year(t) - request.year_built,
     bed_bath_ratio |-> bed_bath_ratio(request.bedrooms, request.bathrooms),
     price_per_sqft |-> estimated_price_per_sqft(request)]

------------------------------------------------------------------------------
(* The loaded artifacts.  They are opaque pickles; the model draws them     *)
(* from a small family of pure functions that either return a value or      *)
(* raise.  A strict artifact raises ValueError on a record it cannot        *)
(* handle (a non-finite number, a category it was not fitted on); a         *)
(* lenient one lets it through.                                             *)

NoPreprocessor == [loaded |-> FALSE, strict |-> FALSE]

NoModel == [loaded |-> FALSE, strict |-> FALSE, bias |-> 0, wAge |-> 0]

Preprocessors ==
    { [loaded |-> TRUE, strict |-> TRUE],
      [loaded |-> TRUE, strict |-> FALSE] }

\* bias and wAge in thousandths of the currency unit
Models ==
    { [loaded |-> TRUE, strict |-> FALSE, bias |-> 489650755, wAge |-> 0],
      [loaded |-> TRUE, strict |-> TRUE,  bias |-> 250004,    wAge |-> -1500],
      [loaded |-> TRUE, strict |-> FALSE, bias |-> -100005,   wAge |-> 0] }

\* preprocessor.transform(input_data)
transform(pre, rec) ==
    LET finite == rec.bed_bath_ratio.kind = "finite"
        known  == rec.location \in Locations /\ rec.condition \in Conditions
        vector == [finite |-> finite, sqft |-> rec.sqft,
                   house_age |-> rec.house_age,
                   price_per_sqft |-> rec.price_per_sqft]
    IN  IF ~pre.loaded
        THEN [raised |-> TRUE, exc |-> "NameError", vector |-> vector]
        ELSE IF pre.strict /\ ~(finite /\ known)
        THEN [raised |-> TRUE, exc |-> "ValueError", vector |-> vector]
        ELSE [raised |-> FALSE, exc |-> "", vector |-> vector]

\* model.predict(processed_features)[0]
predict(mdl, vector) ==
    IF ~mdl.loaded
    THEN [raised |-> TRUE, exc |-> "NameError", raw |-> 0]
    ELSE IF mdl.strict /\ ~vector.finite
    THEN [raised |-> TRUE, exc |-> "ValueError", raw |-> 0]
    ELSE [raised |-> FALSE, exc |-> "",
          raw |-> mdl.bias + mdl.wAge * vector.house_age]

------------------------------------------------------------------------------
(* predict_price *)

NoError == [kind |-> "", cause |-> ""]

NoThrown == [by |-> "", exc |-> ""]

\* PredictionResponse
PredictionResponse(price, interval, t) ==
    [predicted_price     |-> price,
     confidence_interval |-> interval,
     prediction_time     |-> t]

\* [round(predicted_price * 0.9, 2), round(predicted_price * 1.1, 2)]
confidence_interval(price) ==
    <<RoundHalfEven(price * 9, 10), RoundHalfEven(price * 11, 10)>>

\* Mutant: the except clause re-raises the artifact's exception as it is
ReraiseUnwrapped(e) == [kind |-> e, cause |-> ""]

\* except Exception as e: raise Exception(f"Prediction failed: {str(e)}")
PredictionFailed(e) == [kind |-> "PredictionFailed", cause |-> e]

\* One call of predict_price at clock value t.  `handed` lists the feature
\* records passed to preprocessor.transform, `thrown` the exception an
\* artifact raised (history, for the claims).
predict_price(request, t) ==
    LET rec == input_data(request, t)
        tr  == transform(preprocessor, rec)
        sc  == predict(model, tr.vector)
        price == round2(sc.raw)
    IN  IF tr.raised
        THEN [raised |-> TRUE, error |-> PredictionFailed(tr.exc),
              thrown |-> [by |-> "transform", exc |-> tr.exc],
              results |-> <<>>, handed |-> <<rec>>]
        ELSE IF sc.raised
        THEN [raised |-> TRUE, error |-> PredictionFailed(sc.exc),
              thrown |-> [by |-> "score", exc |-> sc.exc],
              results |-> <<>>, handed |-> <<rec>>]
        ELSE [raised |-> FALSE, error |-> NoError, thrown |-> NoThrown,
              results |-> <<PredictionResponse(price,
                                               confidence_interval(price), t)>>,
              handed |-> <<rec>>]

------------------------------------------------------------------------------
(* batch_predict *)

\* [predict_price(req) for req in requests] : the comprehension evaluates
\* the items in order; the first exception leaves it and the results built
\* so far are dropped.
RECURSIVE BatchFrom(_, _, _, _, _)
BatchFrom(requests, i, t, acc, handed) ==
    IF i > Len(requests)
    THEN [raised |-> FALSE, error |-> NoError, thrown |-> NoThrown,
          results |-> acc, handed |-> handed]
    ELSE LET r == predict_price(requests[i], t)
         IN  IF r.raised
             THEN [raised |-> TRUE, error |-> r.error, thrown |-> r.thrown,
                   results |-> <<>>, handed |-> handed \o r.handed]
             ELSE BatchFrom(requests, i + 1, t, acc \o r.results,
                            handed \o r.handed)

batch_predict(requests, t) == BatchFrom(requests, 1, t, <<>>, <<>>)

------------------------------------------------------------------------------
(* The process *)

NoCall ==
    [op |-> "none", requests |-> <<>>, time |-> 0, raised |-> FALSE,
     error |-> NoError, thrown |-> NoThrown, results |-> <<>>, handed |-> <<>>]

Call(op, requests, t, r) ==
    [op |-> op, requests |-> requests, time |-> t, raised |-> r.raised,
     error |-> r.error, thrown |-> r.thrown, results |-> r.results,
     handed |-> r.handed]

Init ==
    /\ phase = "start"
    /\ model = NoModel
    /\ preprocessor = NoPreprocessor
    /\ loads = 0
    /\ now = 0
    /\ last = NoCall
    /\ earlier = NoCall

\* Mutant: the load error is swallowed and the module is importable
startup_swallows_error(mOK, pOK) == "ready"

\* try: load both / except: raise RuntimeError -> the import fails
startup_phase(mOK, pOK) == IF mOK /\ pOK THEN "ready" ELSE "fatal"

\* The module body: joblib.load(MODEL_PATH), then
\* joblib.load(PREPROCESSOR_PATH); either may raise.
LoadArtifacts ==
    /\ phase = "start"
    /\ \E m \in Models, p \in Preprocessors, mOK \in BOOLEAN, pOK \in BOOLEAN :
        /\ model' = IF mOK THEN m ELSE NoModel
        /\ preprocessor' = IF mOK /\ pOK THEN p ELSE NoPreprocessor
        /\ phase' = startup_phase(mOK, pOK)
    /\ loads' = loads + 1
    /\ UNCHANGED <<now, last, earlier>>

\* Time passes
Tick ==
    /\ now < MaxNow
    /\ now' = now + 1
    /\ UNCHANGED <<phase, model, preprocessor, loads, last, earlier>>

\* A caller invokes predict_price(request).  The previous predict_price
\* call may be retained in `earlier`.
Predict ==
    /\ phase = "ready"
    /\ \E request \in Requests, keep \in BOOLEAN :
        /\ last' = Call("predict", <<request>>, now, predict_price(request, now))
        /\ earlier' = IF keep /\ last.op = "predict" THEN last ELSE earlier
    /\ UNCHANGED <<phase, model, preprocessor, loads, now>>

\* The batches: up to MaxBatch items, each a valid request or the one with
\* no bathroom
BatchRequests ==
    { r \in Requests : r.location \in Locations /\ r.year_built <= 2023 }

BatchInputs == UNION { [1..n -> BatchRequests] : n \in 0..MaxBatch }

\* A caller invokes batch_predict(requests)
BatchPredict ==
    /\ phase = "ready"
    /\ \E requests \in BatchInputs :
        last' = Call("batch", requests, now, batch_predict(requests, now))
    /\ UNCHANGED <<phase, model, preprocessor, loads, now, earlier>>

Next == LoadArtifacts \/ Tick \/ Predict \/ BatchPredict

Spec == Init /\ [][Next]_vars

------------------------------------------------------------------------------
(* Feature derivation checked over every location and condition: the       *)
(* process has started with some artifacts and predict_price is applied to *)
(* one request of AllRequests after another.                               *)

InitDerive ==
    /\ phase = "ready"
    /\ model \in Models
    /\ preprocessor \in Preprocessors
    /\ loads = 1
    /\ now \in 0..MaxNow
    /\ last = NoCall
    /\ earlier = NoCall

PredictAny ==
    /\ phase = "ready"
    /\ \E request \in AllRequests :
        last' = Call("predict", <<request>>, now, predict_price(request, now))
    /\ UNCHANGED <<phase, model, preprocessor, loads, now, earlier>>

NextDerive == PredictAny

SpecDerive == InitDerive /\ [][NextDerive]_vars

------------------------------------------------------------------------------
(* Claims *)

\* What predict_price does on its own for item i of the last call
ItemAlone(i) == predict_price(last.requests[i], last.time)

FailingItems == { i \in 1..Len(last.requests) : ItemAlone(i).raised }

\* C1: a batch of N requests with exactly one failing item yields N-1
\* successful results and one failure isolated at that item's index; the
\* items before and after it still produce their results.
CX_C1 ==
    (last.op = "batch" /\ Cardinality(FailingItems) = 1)
        => /\ Len(last.results) = Len(last.requests) - 1
           /\ \A i \in 1..Len(last.requests) :
                i \notin FailingItems
                    => \E j \in 1..Len(last.results) :
                        last.results[j] = ItemAlone(i).results[1]

\* C2: batch_predict returns exactly N results for N requests, the i-th
\* being the result of predict_price on the i-th request.
CX_C2 ==
    last.op = "batch"
        => /\ Len(last.results) = Len(last.requests)
           /\ \A i \in 1..Len(last.requests) :
                ~ItemAlone(i).raised
                    => last.results[i] = ItemAlone(i).results[1]

\* What does hold of batch_predict: when it returns, it returns N results
\* in input order.
BatchOrderWhenReturned ==
    (last.op = "batch" /\ ~last.raised)
        => /\ Len(last.results) = Len(last.requests)
           /\ \A i \in 1..Len(last.requests) :
                /\ ~ItemAlone(i).raised
                /\ last.results[i] = ItemAlone(i).results[1]

\* C3: every response satisfies
\* confidence_interval[0] <= predicted_price <= confidence_interval[1],
\* whatever the sign of the model output.
CX_C3 ==
    \A i \in 1..Len(last.results) :
        /\ last.results[i].confidence_interval[1] <= last.results[i].predicted_price
        /\ last.results[i].predicted_price <= last.results[i].confidence_interval[2]

\* C4: the price_per_sqft of the feature record handed to the transform
\* artifact is the caller-supplied price_per_sqft, unchanged.
CX_C4 ==
    \A i \in 1..Len(last.handed) :
        last.handed[i].price_per_sqft = last.requests[i].price_per_sqft

\* C5: a request with bathrooms <= 0 fails with InvalidInput before the
\* transform artifact is invoked; no record with an infinite or NaN
\* bed_bath_ratio is handed to an artifact.
CX_C5 ==
    /\ \A i \in 1..Len(last.handed) :
        last.handed[i].bed_bath_ratio.kind = "finite"
    /\ (last.op = "predict" /\ last.requests[1].bathrooms <= 0)
        => /\ last.raised
           /\ last.error.kind = "InvalidInput"
           /\ last.handed = <<>>

\* C6: house_age = current_year - year_built, and a request built in the
\* future fails with InvalidInput; no record with a negative house_age is
\* handed to the transform artifact.
CX_C6 ==
    /\ \A i \in 1..Len(last.handed) :
        /\ last.handed[i].house_age
             = current_year(last.time) - last.requests[i].year_built
        /\ last.handed[i].house_age >= 0
    /\ (last.op = "predict"
          /\ last.requests[1].year_built > current_year(last.time))
        => /\ last.raised
           /\ last.error.kind = "InvalidInput"

\* What does hold of house_age: it is the difference of the two years.
HouseAgeIsDifference ==
    \A i \in 1..Len(last.handed) :
        last.handed[i].house_age
            = current_year(last.time) - last.requests[i].year_built

C7State ==
    last.thrown.by \in {"transform", "score"}
        => /\ last.raised
           /\ last.results = <<>>
           /\ last.error.kind = "PredictionFailed"
           /\ last.error.kind # "InvalidInput"
           /\ last.error.cause = last.thrown.exc
           /\ phase = "ready"

C7Step ==
    last'.raised
        => /\ phase' = phase
           /\ model' = model
           /\ preprocessor' = preprocessor
           /\ loads' = loads

C8State ==
    /\ loads <= 1
    /\ (phase = "start") <=> (loads = 0)
    /\ last.op # "none" => phase = "ready"
    /\ phase = "ready" => (model.loaded /\ preprocessor.loaded)
    /\ phase = "fatal"
        => (~(model.loaded /\ preprocessor.loaded) /\ last = NoCall)

C8Step ==
    phase = "ready"
        => /\ phase' = "ready"
           /\ model' = model
           /\ preprocessor' = preprocessor
           /\ loads' = loads

\* C8: the artifact load runs exactly once, before any request; a failed
\* load ends startup in a fatal error and nothing is ever served; whenever
\* a prediction is computed both artifacts are loaded, and they are never
\* reloaded or reassigned.
Thm_C8 == []C8State /\ [][C8Step]_vars

\* C8 witness: a prediction has been computed after the one load.
Wit_C8 ==
    /\ last.op = "predict" /\ ~last.raised
    /\ phase = "ready" /\ loads = 1
    /\ model.loaded /\ preprocessor.loaded

\* The tables as the claim states them, in hundredths
ClaimedBaseRate(location) ==
    CASE location = "Rural"      -> 180
      [] location = "Suburb"     -> 320
      [] location = "Urban"      -> 280
      [] location = "Downtown"   -> 350
      [] location = "Waterfront" -> 450
      [] location = "Mountain"   -> 250
      [] OTHER                   -> 300

ClaimedMultiplier(condition) ==
    CASE condition = "Poor"      -> 70
      [] condition = "Fair"      -> 85
      [] condition = "Excellent" -> 130
      [] OTHER                   -> 100

\* C9: the computed default price_per_area is base_rate[location] x
\* condition_multiplier[condition] with the stated tables; Suburb/Good gives
\* 320, an unknown location uses 300 and an unknown condition 1.0.
Thm_C9 ==
    \A i \in 1..Len(last.handed) :
        LET rec == last.handed[i]
        IN  /\ rec.price_per_sqft
                 = ClaimedBaseRate(rec.location) * ClaimedMultiplier(rec.condition)
            /\ (rec.location = "Suburb" /\ rec.condition = "Good")
                 => rec.price_per_sqft = 32000
            /\ rec.location \notin Locations
                 => rec.price_per_sqft = 300 * ClaimedMultiplier(rec.condition)
            /\ rec.condition \notin Conditions
                 => rec.price_per_sqft = ClaimedBaseRate(rec.location) * 100

\* C9 witness: a record derived for a location and a condition outside
\* both tables.
Wit_C9 ==
    /\ last.op = "predict"
    /\ last.handed # <<>>
    /\ last.handed[1].location = "City"
    /\ last.handed[1].condition = "Average"
    /\ last.handed[1].price_per_sqft = 30000

SameInputTwice ==
    /\ earlier.op = "predict" /\ ~earlier.raised
    /\ last.op = "predict" /\ ~last.raised
    /\ earlier.requests = last.requests

SameOutput ==
    /\ earlier.results[1].predicted_price = last.results[1].predicted_price
    /\ earlier.results[1].confidence_interval
         = last.results[1].confidence_interval

\* C10 as stated: two runs of predict_price on identical request fields, at
\* any two points in the life of the process, give the same predicted_price
\* and confidence_interval.
CX_C10 == SameInputTwice => SameOutput

\* C10 amended: the same holds for two runs in the same calendar year.
Thm_C10 ==
    (SameInputTwice /\ YearOf(earlier.time) = YearOf(last.time))
        => SameOutput

\* C10 witness: the same request answered at two different times of one
\* year.
Wit_C10 ==
    /\ SameInputTwice
    /\ earlier.time # last.time
    /\ YearOf(earlier.time) = YearOf(last.time)
    /\ model.wAge # 0
    /\ earlier.results[1].prediction_time # last.results[1].prediction_time

====
